---- MODULE Spec2Model ----
(***************************************************************************)
(* Model of the art package: the grayscale base class (art/_base_image.py) *)
(* and the batch front end (art/gui.py), together with the boundary        *)
(* extraction stage the front end drives.                                  *)
(*                                                                         *)
(* Three specifications share the module:                                  *)
(*   SpecBase      BaseImage.__init__ on one input array, then writes to   *)
(*                 the stored gray_image;                                  *)
(*   SpecGui       gooey_gui: GUI.__init__ (parse_args, load_image, the    *)
(*                 handler list) and GUI.run over the batch;               *)
(*   SpecBoundary  the boundary extraction stage applied to a label map.   *)
(***************************************************************************)
EXTENDS Integers, Sequences, FiniteSets, TLC

VARIABLES
    \* ---- BaseImage ----
    heap,          \* the ndarrays that exist: reference -> array
    input,         \* the array the caller passed, as it was at the call
    rgb_image,     \* self.rgb_image (a reference)
    gray_image,    \* self.gray_image (a reference, or Unset)
    orig_gray,     \* self._orig_gray
    err,           \* the exception __init__ raised, "none" if it returned
    bpc,           \* "new", "constructed" or "raised"
    writes,        \* writes made to gray_image after construction
    \* ---- GUI ----
    args,              \* the parsed command line (GooeyParser.parse_args)
    files,             \* self.files
    is_photo,          \* self.is_photo
    exposure_algo,     \* self.exposure_algo
    n_classes,         \* self.n_classes
    resolution,        \* self.resolution
    resize_settings,   \* self.resize_settings
    rgb_images,        \* self.rgb_images
    boundary_handlers, \* self.boundary_handlers
    k,                 \* the loop index of GUI.run
    pc,                \* position in gooey_gui
    raisedIn,          \* the step whose exception left gooey_gui
    log,               \* pipeline runs and saved outputs, in order
    \* ---- boundary extraction ----
    label,         \* the label map
    mask,          \* the boundary mask
    xpc            \* "input" or "extracted"

baseVars == <<heap, input, rgb_image, gray_image, orig_gray, err, bpc, writes>>
guiVars == <<args, files, is_photo, exposure_algo, n_classes, resolution,
             resize_settings, rgb_images, boundary_handlers, k, pc, raisedIn, log>>
boundaryVars == <<label, mask, xpc>>
vars == <<baseVars, guiVars, boundaryVars>>

\* ---------------------------------------------------------------------
\* Bounds of the model
\* ---------------------------------------------------------------------
MaxSide == 2      \* every array dimension but the channel one is in 1..MaxSide
MaxChan == 5      \* the channel dimension is in 1..MaxChan
MaxWrites == 1    \* writes to gray_image after construction
MaxFiles == 3     \* files in a batch
WidthDen == 2     \* width and height are multiples of 1/WidthDen inch
GridH == 3        \* label map height
GridW == 3        \* label map width

\* --n_classes: default=2, the least class count the slider offers
DefaultClasses == 2

Unset == 0
None == <<>>

\* ---------------------------------------------------------------------
\* numpy arrays: a shape, the elements in row-major order, and the
\* denominator of the element values (an element is data[i] / den; an
\* 8-bit array has den = 1).
\* ---------------------------------------------------------------------
RECURSIVE Size(_)
Size(shape) == IF shape = <<>> THEN 1 ELSE Head(shape) * Size(Tail(shape))

NoArray == [shape |-> <<>>, data |-> <<>>, den |-> 1]

PixelVals == {0, 128, 255}

Dims == 1..MaxSide

Shapes ==
    {<<w>> : w \in Dims}
    \cup {<<h, w>> : h \in Dims, w \in Dims}
    \cup {<<h, w, c>> : h \in Dims, w \in Dims, c \in 1..MaxChan}
    \cup {<<h, w, c, f>> : h \in Dims, w \in Dims, c \in 1..MaxChan, f \in Dims}

\* 8-bit input arrays: background value b with one element a at position i
InputArrays ==
    UNION {
        {[shape |-> s,
          data |-> [j \in 1..Size(s) |-> IF j = i THEN a ELSE b],
          den |-> 1] : i \in 1..Size(s), a \in PixelVals, b \in PixelVals}
        : s \in Shapes}

Refs == 1..3
caller == 1

FreshRef(h) == CHOOSE r \in Refs : h[r] = NoArray /\ \A q \in Refs : h[q] = NoArray => r <= q

\* an assignment without copy(): the same array under a second name
ndarray_copy_alias(h, r) == [heap |-> h, ref |-> r]

\* ndarray.copy(): a new array with the same contents
ndarray_copy(h, r) ==
    [heap |-> [h EXCEPT ![FreshRef(h)] = h[r]], ref |-> FreshRef(h)]

Last(s) == s[Len(s)]

\* img_as_float: an 8-bit array is divided by 255, a float array is kept
AsFloat(a) == IF a.den = 1 THEN [a EXCEPT !.den = 255] ELSE a

Clip(v, lo, hi) == IF v < lo THEN lo ELSE IF v > hi THEN hi ELSE v

\* skimage.color.rgba2rgb with the default white background:
\* out = clip((1 - alpha) * 1 + alpha * channel, 0, 1)
rgba2rgb(a) ==
    LET f == AsFloat(a)
        n == Size(a.shape) \div 4
        d == f.den * f.den
    IN  [shape |-> SubSeq(a.shape, 1, Len(a.shape) - 1) \o <<3>>,
         data |-> [j \in 1..(3 * n) |->
                     LET p == (j - 1) \div 3
                         c == (j - 1) % 3
                         alpha == f.data[4 * p + 4]
                         v == f.data[4 * p + c + 1]
                     IN  Clip((f.den - alpha) * f.den + alpha * v, 0, d)],
         den |-> d]

\* skimage.color.rgb2gray: 0.2125 R + 0.7154 G + 0.0721 B on the float image;
\* the last axis must have size 3
rgb2gray_ok(a) == Len(a.shape) >= 1 /\ Last(a.shape) = 3

rgb2gray(a) ==
    LET f == AsFloat(a)
        n == Size(a.shape) \div 3
    IN  [shape |-> SubSeq(a.shape, 1, Len(a.shape) - 1),
         data |-> [j \in 1..n |->
                     2125 * f.data[3 * j - 2] + 7154 * f.data[3 * j - 1]
                     + 721 * f.data[3 * j]],
         den |-> f.den * 10000]

\* ---------------------------------------------------------------------
\* BaseImage.__init__
\* ---------------------------------------------------------------------
\* lines 41-52: the branch on the shape.  The result is the state the
\* object is in when line 53 is reached, or the exception raised before.
ShapeBranch(h, ref) ==
    LET im_shape == h[ref].shape
    IN  IF Len(im_shape) = 2
        THEN LET c == ndarray_copy(h, ref)
             IN  [heap |-> c.heap, rgb |-> ref, gray |-> c.ref,
                  orig |-> TRUE, err |-> "none"]
        ELSE IF Len(im_shape) = 3 /\ Last(im_shape) = 4
        THEN [heap |-> [h EXCEPT ![FreshRef(h)] = rgba2rgb(h[ref])],
              rgb |-> FreshRef(h), gray |-> Unset,
              orig |-> FALSE, err |-> "none"]
        ELSE IF Len(im_shape) # 3
        THEN [heap |-> h, rgb |-> ref, gray |-> Unset,
              orig |-> FALSE, err |-> "ValueError"]
        ELSE [heap |-> h, rgb |-> ref, gray |-> Unset,
              orig |-> FALSE, err |-> "none"]

\* lines 53-54: self.gray_image = rgb2gray(self.gray_image).  The argument
\* is read from the attribute gray_image, which exists only on the
\* single-channel branch.
GrayBranch(s) ==
    IF s.err # "none" \/ s.orig
    THEN s
    ELSE IF s.gray = Unset
    THEN [s EXCEPT !.err = "AttributeError"]
    ELSE IF ~rgb2gray_ok(s.heap[s.gray])
    THEN [s EXCEPT !.err = "ValueError"]
    ELSE [s EXCEPT !.heap = [s.heap EXCEPT ![FreshRef(s.heap)] = rgb2gray(s.heap[s.gray])],
                   !.gray = FreshRef(s.heap)]

BaseImage_init ==
    /\ bpc = "new"
    /\ LET s == GrayBranch(ShapeBranch(heap, caller))
       IN  /\ heap' = s.heap
           /\ rgb_image' = s.rgb
           /\ gray_image' = s.gray
           /\ orig_gray' = s.orig
           /\ err' = s.err
           /\ bpc' = IF s.err = "none" THEN "constructed" ELSE "raised"
    /\ UNCHANGED <<input, writes>>

\* a client of the object writes one element of gray_image
WriteGray ==
    /\ bpc = "constructed"
    /\ gray_image # Unset
    /\ writes < MaxWrites
    /\ \E i \in 1..Size(heap[gray_image].shape), v \in PixelVals :
          heap' = [heap EXCEPT ![gray_image].data[i] = v]
    /\ writes' = writes + 1
    /\ UNCHANGED <<input, rgb_image, gray_image, orig_gray, err, bpc>>

\* ---------------------------------------------------------------------
\* gui.py: the parser
\* ---------------------------------------------------------------------
\* choices of --exposure_algo (lines 128-130); the default is "Sigmoid"
ExposureChoices ==
    {"Gamma", "Sigmoid", "Log", "CLAHE",
     "Histogram Equalization", "Contrast Stretching"}

\* the positional argument filename, nargs="+": one to MaxFiles distinct files
FileNames == 1..MaxFiles

FileLists ==
    UNION {{fl \in [1..n -> FileNames] : \A i, j \in 1..n : fl[i] = fl[j] => i = j}
           : n \in 1..MaxFiles}

\* --width and --height, type=float, in units of 1/WidthDen inch
InchValues == {-1, 0, 1, WidthDen}

\* --resolution, type=int
ResolutionValues == {50, 51, 97}

ParsedArgs ==
    [filename : FileLists,
     is_photo : BOOLEAN,
     exposure_algo : ExposureChoices,
     n_classes : {DefaultClasses},
     width : InchValues,
     height : InchValues,
     resolution : ResolutionValues]

NoArgs ==
    [filename |-> <<>>, is_photo |-> FALSE, exposure_algo |-> "", n_classes |-> 0,
     width |-> 0, height |-> 0, resolution |-> 0]

\* ---------------------------------------------------------------------
\* GUI.__init__ and GUI.parse_args
\* ---------------------------------------------------------------------
\* self.options_mapper (lines 32-37)
options_mapper ==
    [x \in {"Gamma", "Sigmoid", "CLAHE", "Histogram Equalization",
            "Contrast Stretching"} |->
        CASE x = "Gamma" -> "gamma"
          [] x = "Sigmoid" -> "sigmoid"
          [] x = "CLAHE" -> "clahe"
          [] x = "Histogram Equalization" -> "histeq"
          [] x = "Contrast Stretching" -> "contrast_stretch"]

\* dict.get(key, default)
DictGet(d, key, default) == IF key \in DOMAIN d THEN d[key] ELSE default

\* line 70
ParseResolution(r) == IF r > 50 THEN r ELSE 96

\* a real number num / den
Rat(num, den) == [num |-> num, den |-> den]

\* lines 71-75: the products are float * int; None when a side is <= 0
ParseResize(a, res) ==
    IF a.width <= 0 \/ a.height <= 0
    THEN None
    ELSE <<Rat(a.width * res, WidthDen), Rat(a.height * res, WidthDen)>>

parse_args ==
    /\ pc = "start"
    /\ files' = args.filename
    /\ is_photo' = args.is_photo
    /\ exposure_algo' = DictGet(options_mapper, args.exposure_algo, "Sigmoid")
    /\ n_classes' = args.n_classes
    /\ resolution' = ParseResolution(args.resolution)
    /\ resize_settings' = ParseResize(args, ParseResolution(args.resolution))
    /\ pc' = "parsed"
    /\ UNCHANGED <<args, rgb_images, boundary_handlers, k, raisedIn, log>>

\* skimage.io.imread(fname): the decoded pixels of the file
imread(fname) == [pixels_of |-> fname]

\* a comprehension that drops the element that raises and keeps the rest
ListCompSkip(xs, f) ==
    [ok |-> TRUE,
     items |-> IF f = 0 THEN xs
               ELSE SubSeq(xs, 1, f - 1) \o SubSeq(xs, f + 1, Len(xs))]

\* A list comprehension over xs whose element f is the first to raise
\* (f = 0: none raises).  The list is assigned only if no element raises.
ListComp(xs, f) ==
    IF f = 0 THEN [ok |-> TRUE, items |-> xs] ELSE [ok |-> FALSE, items |-> <<>>]

Raise(step, at) ==
    /\ pc' = "raised"
    /\ raisedIn' = [step |-> step, at |-> at]

\* lines 49-52
load_image ==
    /\ pc = "parsed"
    /\ \E f \in 0..Len(files) :
          LET r == ListComp([i \in 1..Len(files) |-> imread(files[i])], f)
          IN  IF r.ok
              THEN /\ rgb_images' = r.items
                   /\ pc' = "loaded"
                   /\ UNCHANGED raisedIn
              ELSE /\ Raise("load_image", f)
                   /\ UNCHANGED rgb_images
    /\ UNCHANGED <<args, files, is_photo, exposure_algo, n_classes, resolution,
                   resize_settings, boundary_handlers, k, log>>

\* lines 42-47
build_handlers ==
    /\ pc = "loaded"
    /\ \E f \in 0..Len(rgb_images) :
          LET r == ListComp([i \in 1..Len(rgb_images) |->
                               [image |-> rgb_images[i],
                                photo_correction |-> is_photo,
                                photo_corr_method |-> exposure_algo]], f)
          IN  IF r.ok
              THEN /\ boundary_handlers' = r.items
                   /\ pc' = "run"
                   /\ k' = 1
                   /\ UNCHANGED raisedIn
              ELSE /\ Raise("BoundaryImage", f)
                   /\ UNCHANGED <<boundary_handlers, k>>
    /\ UNCHANGED <<args, files, is_photo, exposure_algo, n_classes, resolution,
                   resize_settings, rgb_images, log>>

\* ---------------------------------------------------------------------
\* GUI.run
\* ---------------------------------------------------------------------
\* the handlers taken from the end of the list
HandlerAtReversed(hs, i) == hs[Len(hs) + 1 - i]

\* enumerate(self.boundary_handlers): the handler of step i
HandlerAt(hs, i) == hs[i]

\* lines 82-87: the call of run_pipeline on the handler of step k
run_pipeline ==
    /\ pc = "run"
    /\ k <= Len(boundary_handlers)
    /\ log' = Append(log, [op |-> "run_pipeline",
                           image |-> HandlerAt(boundary_handlers, k).image,
                           file |-> 0,
                           resized |-> resize_settings # None])
    /\ \E ok \in BOOLEAN :
          IF ok
          THEN pc' = "save" /\ UNCHANGED raisedIn
          ELSE Raise("run_pipeline", k)
    /\ UNCHANGED <<args, files, is_photo, exposure_algo, n_classes, resolution,
                   resize_settings, rgb_images, boundary_handlers, k>>

\* lines 88-97: the output name is built from files[k], then imsave
imsave ==
    /\ pc = "save"
    /\ \E ok \in BOOLEAN :
          IF ok
          THEN /\ log' = Append(log, [op |-> "imsave",
                                      image |-> HandlerAt(boundary_handlers, k).image,
                                      file |-> files[k],
                                      resized |-> resize_settings # None])
               /\ k' = k + 1
               /\ pc' = "run"
               /\ UNCHANGED raisedIn
          ELSE /\ Raise("imsave", k)
               /\ UNCHANGED <<log, k>>
    /\ UNCHANGED <<args, files, is_photo, exposure_algo, n_classes, resolution,
                   resize_settings, rgb_images, boundary_handlers>>

\* line 98
run_return ==
    /\ pc = "run"
    /\ k > Len(boundary_handlers)
    /\ pc' = "done"
    /\ UNCHANGED <<args, files, is_photo, exposure_algo, n_classes, resolution,
                   resize_settings, rgb_images, boundary_handlers, k, raisedIn, log>>

\* ---------------------------------------------------------------------
\* Boundary extraction (the stage behind BoundaryImage.run_pipeline):
\* a pixel is marked when one of its in-bounds 4-neighbours has another
\* label.
\* ---------------------------------------------------------------------
Pixels == (1..GridH) \X (1..GridW)

Labels == 0..(DefaultClasses - 1)

Offsets4 == {<<-1, 0>>, <<1, 0>>, <<0, -1>>, <<0, 1>>}

InBounds(q) == q[1] >= 1 /\ q[1] <= GridH /\ q[2] >= 1 /\ q[2] <= GridW

Shift(p, o) == <<p[1] + o[1], p[2] + o[2]>>

\* out-of-bounds neighbours read as a padding label
ExtractBoundaryPadded(lab) ==
    [p \in Pixels |->
        \E o \in Offsets4 :
            (IF InBounds(Shift(p, o)) THEN lab[Shift(p, o)] ELSE -1) # lab[p]]

\* the mask of a label map
ExtractBoundary(lab) ==
    [p \in Pixels |->
        \E o \in Offsets4 :
            InBounds(Shift(p, o)) /\ lab[Shift(p, o)] # lab[p]]

extract_boundary ==
    /\ xpc = "input"
    /\ mask' = ExtractBoundary(label)
    /\ xpc' = "extracted"
    /\ UNCHANGED label

\* ---------------------------------------------------------------------
\* Specifications
\* ---------------------------------------------------------------------
\* the call of BaseImage(rgb_image) on one input array
BaseInit ==
    /\ input \in InputArrays
    /\ heap = [r \in Refs |-> IF r = caller THEN input ELSE NoArray]
    /\ rgb_image = Unset
    /\ gray_image = Unset
    /\ orig_gray = FALSE
    /\ err = "none"
    /\ bpc = "new"
    /\ writes = 0
    \* the other components are idle
    /\ args = NoArgs
    /\ files = <<>>
    /\ is_photo = FALSE
    /\ exposure_algo = ""
    /\ n_classes = 0
    /\ resolution = 0
    /\ resize_settings = None
    /\ rgb_images = <<>>
    /\ boundary_handlers = <<>>
    /\ k = 0
    /\ pc = "idle"
    /\ raisedIn = [step |-> "none", at |-> 0]
    /\ log = <<>>
    /\ label = [p \in Pixels |-> 0]
    /\ mask = [p \in Pixels |-> FALSE]
    /\ xpc = "idle"

\* gooey_gui after parser().parse_args()
GuiInit ==
    /\ args \in ParsedArgs
    /\ files = <<>>
    /\ is_photo = FALSE
    /\ exposure_algo = ""
    /\ n_classes = 0
    /\ resolution = 0
    /\ resize_settings = None
    /\ rgb_images = <<>>
    /\ boundary_handlers = <<>>
    /\ k = 0
    /\ pc = "start"
    /\ raisedIn = [step |-> "none", at |-> 0]
    /\ log = <<>>
    \* the other components are idle
    /\ heap = [r \in Refs |-> NoArray]
    /\ input = NoArray
    /\ rgb_image = Unset
    /\ gray_image = Unset
    /\ orig_gray = FALSE
    /\ err = "none"
    /\ bpc = "idle"
    /\ writes = 0
    /\ label = [p \in Pixels |-> 0]
    /\ mask = [p \in Pixels |-> FALSE]
    /\ xpc = "idle"

\* a label map handed to the boundary extraction
BoundaryInit ==
    /\ label \in [Pixels -> Labels]
    /\ mask = [p \in Pixels |-> FALSE]
    /\ xpc = "input"
    \* the other components are idle
    /\ heap = [r \in Refs |-> NoArray]
    /\ input = NoArray
    /\ rgb_image = Unset
    /\ gray_image = Unset
    /\ orig_gray = FALSE
    /\ err = "none"
    /\ bpc = "idle"
    /\ writes = 0
    /\ args = NoArgs
    /\ files = <<>>
    /\ is_photo = FALSE
    /\ exposure_algo = ""
    /\ n_classes = 0
    /\ resolution = 0
    /\ resize_settings = None
    /\ rgb_images = <<>>
    /\ boundary_handlers = <<>>
    /\ k = 0
    /\ pc = "idle"
    /\ raisedIn = [step |-> "none", at |-> 0]
    /\ log = <<>>

BaseNext ==
    \/ BaseImage_init /\ UNCHANGED <<guiVars, boundaryVars>>
    \/ WriteGray /\ UNCHANGED <<guiVars, boundaryVars>>

SpecBase == BaseInit /\ [][BaseNext]_vars

GuiNext ==
    \/ parse_args /\ UNCHANGED <<baseVars, boundaryVars>>
    \/ load_image /\ UNCHANGED <<baseVars, boundaryVars>>
    \/ build_handlers /\ UNCHANGED <<baseVars, boundaryVars>>
    \/ run_pipeline /\ UNCHANGED <<baseVars, boundaryVars>>
    \/ imsave /\ UNCHANGED <<baseVars, boundaryVars>>
    \/ run_return /\ UNCHANGED <<baseVars, boundaryVars>>

SpecGui == GuiInit /\ [][GuiNext]_vars

BoundaryNext == extract_boundary /\ UNCHANGED <<baseVars, guiVars>>

SpecBoundary == BoundaryInit /\ [][BoundaryNext]_vars

\* ---------------------------------------------------------------------
\* Properties
\* ---------------------------------------------------------------------
Constructed == bpc \in {"constructed", "raised"}

ColourShape(s) == Len(s) = 3 /\ Last(s) \in {3, 4}

AcceptedShape(s) == Len(s) = 2 \/ ColourShape(s)

\* C1: on an (H,W,3) or (H,W,4) input the constructor returns without an
\* exception and gray_image is an array of shape (H,W).
C1_ColourInputGivesGray ==
    (Constructed /\ ColourShape(input.shape)) =>
        /\ bpc = "constructed"
        /\ err = "none"
        /\ gray_image # Unset
        /\ heap[gray_image].shape = SubSeq(input.shape, 1, 2)

\* C2: every input whose shape is not (H,W), (H,W,3) or (H,W,4) is rejected
\* with the ValueError that names the shape, and no gray_image exists.
C2_OtherShapesRaiseShapeError ==
    (Constructed /\ ~AcceptedShape(input.shape)) =>
        /\ bpc = "raised"
        /\ err = "ValueError"
        /\ gray_image = Unset

InUnitRange(a) == \A i \in 1..Size(a.shape) : 0 <= a.data[i] /\ a.data[i] <= a.den

\* C3: every value of the gray_image the constructor produced lies in [0,1],
\* also for a single-channel input with 8-bit values.
C3_GrayInUnitRange ==
    (bpc = "constructed" /\ gray_image # Unset /\ writes = 0) =>
        InUnitRange(heap[gray_image])

MethodKeys == {"gamma", "sigmoid", "clahe", "histeq", "contrast_stretch"}

Parsed == pc \notin {"idle", "start"}

\* C4: the correction method parse_args stores, and the one every handler is
\* built with, is the key of one of the five variants.
C4_MethodIsAKey ==
    Parsed =>
        /\ exposure_algo \in MethodKeys
        /\ \A i \in 1..Len(boundary_handlers) :
              boundary_handlers[i].photo_corr_method \in MethodKeys

IsPositiveInteger(q) == q.num > 0 /\ q.num % q.den = 0

\* C5: the target size is None exactly when width <= 0 or height <= 0, and
\* otherwise a pair of positive integers.
C5_ResizeIsNoneOrPositiveIntegers ==
    Parsed =>
        /\ (resize_settings = None) <=> (args.width <= 0 \/ args.height <= 0)
        /\ resize_settings # None =>
              \A i \in 1..2 : IsPositiveInteger(resize_settings[i])

SavedFiles == {log[i].file : i \in {j \in 1..Len(log) : log[j].op = "imsave"}}

\* C6: when run_pipeline or imsave fails for image k, every later image of
\* the batch is still processed and saved.
C6_LaterImagesStillSaved ==
    (pc = "raised" /\ raisedIn.step \in {"run_pipeline", "imsave"}) =>
        \A j \in (raisedIn.at + 1)..Len(files) : files[j] \in SavedFiles

\* C7: the batch is processed in file order: the log is run 1, save 1,
\* run 2, save 2, ..., the run of step i uses the handler built from the
\* i-th file, and a run starts only when every earlier output is saved.
C7_StrictFileOrder ==
    /\ \A i \in 1..Len(log) :
          IF i % 2 = 1
          THEN /\ log[i].op = "run_pipeline"
               /\ log[i].image = imread(files[(i + 1) \div 2])
          ELSE /\ log[i].op = "imsave"
               /\ log[i].file = files[i \div 2]
               /\ log[i].image = imread(files[i \div 2])
    /\ pc = "run" => Len(log) = 2 * (k - 1)
    /\ pc = "save" => Len(log) = 2 * k - 1

C7_Witness ==
    /\ pc = "done"
    /\ Len(files) >= 2
    /\ files[1] > files[2]
    /\ Len(log) = 2 * Len(files)

Manhattan(p, q) ==
    (IF p[1] >= q[1] THEN p[1] - q[1] ELSE q[1] - p[1])
    + (IF p[2] >= q[2] THEN p[2] - q[2] ELSE q[2] - p[2])

\* C8: mask[p] holds exactly when a pixel of the map next to p has another
\* label; a border pixel whose existing neighbours agree with it is unmarked.
C8_MaskIffNeighbourDiffers ==
    xpc = "extracted" =>
        \A p \in Pixels :
            mask[p] <=> \E q \in Pixels : Manhattan(p, q) = 1 /\ label[q] # label[p]

OnBorder(p) == p[1] \in {1, GridH} \/ p[2] \in {1, GridW}

C8_Witness ==
    /\ xpc = "extracted"
    /\ \E p \in Pixels : OnBorder(p) /\ ~mask[p]
    /\ \E p \in Pixels : OnBorder(p) /\ mask[p]
    /\ \E p \in Pixels : ~OnBorder(p) /\ mask[p]

\* C9: for an (H,W) input, rgb_image is the caller's array, the caller's
\* array keeps its contents, gray_image is another array that starts with
\* equal values, and a write to gray_image changes neither.
C9_GrayIsIndependentCopy ==
    (bpc = "constructed" /\ Len(input.shape) = 2) =>
        /\ rgb_image = caller
        /\ heap[caller] = input
        /\ gray_image # Unset
        /\ gray_image # rgb_image
        /\ writes = 0 => heap[gray_image] = input

C9_Witness ==
    /\ bpc = "constructed"
    /\ Len(input.shape) = 2
    /\ writes >= 1
    /\ heap[gray_image] # heap[rgb_image]
    /\ heap[rgb_image] = input

\* C10: an output is saved only when every file of the batch is loaded and
\* has its handler; when loading or handler construction fails for a file,
\* run is not entered and nothing is saved.
C10_NoOutputBeforeAllBuilt ==
    /\ log # <<>> =>
          /\ Len(rgb_images) = Len(files)
          /\ Len(boundary_handlers) = Len(files)
          /\ \A i \in 1..Len(files) :
                /\ rgb_images[i] = imread(files[i])
                /\ boundary_handlers[i].image = rgb_images[i]
    /\ Len(boundary_handlers) # Len(files) => log = <<>>
    /\ raisedIn.step \in {"load_image", "BoundaryImage"} =>
          /\ pc = "raised"
          /\ log = <<>>

C10_Witness ==
    /\ pc = "raised"
    /\ raisedIn.step = "BoundaryImage"
    /\ raisedIn.at >= 2
    /\ Len(rgb_images) = Len(files)
    /\ log = <<>>

====
